---- MODULE Spec2Model ----
(***************************************************************************)
(* Model of the NFL stat-transformation scripts:                           *)
(*   src/nfl_stats.py                               (windowed, absolute    *)
(*                                                   difference, prompt on *)
(*                                                   duplicate names)      *)
(*   src/Python Code/namepositioncombo_percentage.py (windowed, percentage *)
(*                                                   difference, auto-skip)*)
(*   src/int_stat_by_year.py                        (season by season,     *)
(*                                                   auto-skip)            *)
(* One run of main_folder is modelled: the list of input files is fixed    *)
(* when the run starts, process_file is one action, the end of the loop    *)
(* another.                                                                *)
(***************************************************************************)
EXTENDS Integers, Sequences, FiniteSets, TLC

VARIABLES
    script,           \* which of the three scripts is running
    file_list,        \* main_folder: the files found by glob, in order
    idx,              \* main_folder: index of the next file of file_list
    pc,               \* main_folder: "loop" or "done"
    aggregate,        \* the <pos>_aggregate.xlsx files: position -> rows
    skipped_summary,  \* module-level list of (player, reason)
    printed,          \* main_folder: what the summary at the end printed
    ranking,          \* aggregate_analysis.main: what it produced
    norm,             \* standardize_position: an argument and its results
    workers,          \* process_file invocations running side by side
    calls,            \* history: the indices process_file was invoked with
    accepted,         \* history: position -> results written, in order
    last              \* history: what the latest process_file call did

vars == <<script, file_list, idx, pc, aggregate, skipped_summary, printed,
          ranking, norm, workers, calls, accepted, last>>

----------------------------------------------------------------------------
(* Bounds of the model.                                                    *)

EarlierYears == 2
MaxFiles == 3
MaxStat == 2

(* Program constants.                                                      *)

NominalFirst == 2019
LateFirst == 2022
LateLast == 2024
GamesThreshold == 6
FullSeason == 16

Scripts == {"nfl_stats", "namepositioncombo_percentage", "int_stat_by_year"}

Windowed(s) == s \in {"nfl_stats", "namepositioncombo_percentage"}

----------------------------------------------------------------------------
(* Sequences and rationals.                                                *)

Range(s) == {s[i] : i \in DOMAIN s}

SetMin(S) == CHOOSE x \in S : \A y \in S : x <= y

SetMax(S) == CHOOSE x \in S : \A y \in S : x >= y

RECURSIVE Sorted(_)
Sorted(S) == IF S = {} THEN <<>>
             ELSE <<SetMin(S)>> \o Sorted(S \ {SetMin(S)})

(* The elements of s in order of first appearance: pandas' unique().       *)
RECURSIVE Unique(_)
Unique(s) == IF s = <<>> THEN <<>>
             ELSE LET front == Unique(SubSeq(s, 1, Len(s) - 1))
                      x == s[Len(s)]
                  IN  IF x \in Range(front) THEN front ELSE Append(front, x)

Abs(x) == IF x < 0 THEN -x ELSE x

RECURSIVE GCD(_, _)
GCD(a, b) == IF b = 0 THEN a ELSE GCD(b, a % b)

(* A rational n/d in lowest terms, d > 0.                                  *)
Rat(n, d) == LET g == GCD(Abs(n), Abs(d))
                 s == IF d < 0 THEN -1 ELSE 1
             IN  [n |-> (s * n) \div g, d |-> (s * d) \div g]

RatAdd(a, b) == Rat(a.n * b.d + b.n * a.d, a.d * b.d)
RatSub(a, b) == Rat(a.n * b.d - b.n * a.d, a.d * b.d)
RatLess(a, b) == a.n * b.d < b.n * a.d

RECURSIVE RatSum(_)
RatSum(s) == IF s = <<>> THEN Rat(0, 1)
             ELSE RatAdd(s[1], RatSum(Tail(s)))

(* Series.mean() of a non-empty sequence of rationals.                     *)
Mean(s) == LET t == RatSum(s) IN Rat(t.n, t.d * Len(s))

----------------------------------------------------------------------------
(* Position tokens.  A raw position is a piece of text; what the scripts   *)
(* do to it is strip() and upper(), so a token is its upper-case spelling  *)
(* together with whether it is written in lower case and whether it is     *)
(* surrounded by whitespace.                                               *)

Tok(text) == [core |-> text, lower |-> FALSE, pad |-> FALSE]

Strip(t) == [t EXCEPT !.pad = FALSE]

Upper(t) == [t EXCEPT !.lower = FALSE]

In(t, set) == \E text \in set : t = Tok(text)

lb_set(s) ==
    {"LB", "OLB", "ILB", "MLB", "WLB", "WILL", "SLB", "SAM", "LILB", "LLB",
     "ROLB", "LOLB", "RLB"}
    \cup (IF s = "nfl_stats" THEN {} ELSE {"MILB", "RILB"})

cb_set == {"CB", "NC", "NCB", "DC", "DCB", "DB", "RCB", "LCB"}

ret_set == {"RET", "KR", "PR"}

ol_set(s) ==
    {"T", "OT", "OG", "G", "C", "LG", "RG", "LT", "RT"}
    \cup (IF s = "namepositioncombo_percentage" THEN {"TE", "LS"} ELSE {})
    \cup (IF s = "int_stat_by_year" THEN {"LS"} ELSE {})

dl_set == {"DE", "DT", "NT", "LDT", "RDT", "LDE", "RDE"}

s_set == {"FS", "SS"}

standardize_position_unstripped(s, raw) ==
    LET pos == Upper(raw)
    IN  IF In(pos, lb_set(s)) THEN Tok("LB")
        ELSE IF In(pos, cb_set) THEN Tok("CB")
        ELSE IF In(pos, ret_set) THEN Tok("RET")
        ELSE IF In(pos, ol_set(s)) THEN Tok("OL")
        ELSE IF In(pos, dl_set) THEN Tok("DL")
        ELSE IF In(pos, s_set) THEN Tok("S")
        ELSE pos

(* The single-token sets FB, WR, RB, QB, TE, K, P: each returns its own    *)
(* text, as the final else branch does, so they are one branch here.       *)
standardize_position(s, raw) ==
    LET pos == Upper(Strip(raw))
    IN  IF In(pos, lb_set(s)) THEN Tok("LB")
        ELSE IF In(pos, cb_set) THEN Tok("CB")
        ELSE IF In(pos, ret_set) THEN Tok("RET")
        ELSE IF In(pos, ol_set(s)) THEN Tok("OL")
        ELSE IF In(pos, dl_set) THEN Tok("DL")
        ELSE IF In(pos, s_set) THEN Tok("S")
        ELSE pos

pos_columns ==
    [QB |-> <<"Yds", "Cmp%", "Int", "TD", "1D">>,
     WR |-> <<"Y/R", "Catch%", "Y/Tgt", "Succ%">>,
     FB |-> <<"Y/R", "Catch%", "Y/Tgt", "Succ%">>,
     RB |-> <<"Y/A", "Y/R", "Succ%", "1D">>,
     TE |-> <<"Y/R", "Catch%", "Y/Tgt", "Succ%">>,
     OL |-> <<"Comb", "Solo", "Ast">>,
     DL |-> <<"PD", "Comb", "Solo", "Ast">>,
     LB |-> <<"PD", "Comb", "Solo", "Ast">>,
     CB |-> <<"PD", "Comb", "Solo", "Ast">>,
     S  |-> <<"PD", "Comb", "Solo", "Ast">>,
     K  |-> <<"FG%", "Lng">>,
     P  |-> <<"Y/P", "Lng">>]

Configured(pos) == In(pos, DOMAIN pos_columns)

(* pos_columns.get(pos, [])                                                *)
pos_columns_get(pos) == IF Configured(pos) THEN pos_columns[pos.core] ELSE <<>>

(* [stat for stat in pos_columns.get(pos, []) if stat in df.columns]       *)
StatCols(pos, columns) ==
    SelectSeq(pos_columns_get(pos), LAMBDA c : c \in columns)

AllStats == UNION {Range(pos_columns[k]) : k \in DOMAIN pos_columns}

----------------------------------------------------------------------------
(* An input file.  name is the player name taken from the file name,       *)
(* exists whether the file is still there when it is opened, missing_col   *)
(* the required column the table lacks ("none" when it has all three),     *)
(* cols the stat columns of the table, rows its rows in order:             *)
(*   [Season, G, Pos, stats : cols -> Int].                                *)

Seasons(rows) == {rows[i].Season : i \in DOMAIN rows}

(* valid_years: the six window years and every year before 2019 that the   *)
(* table has.                                                              *)
valid_years(rows) ==
    (NominalFirst .. LateLast)
    \cup {y \in Seasons(rows) : y < NominalFirst}

Relevant_unfiltered(s, rows) == rows

(* relevant_df before the merge.                                           *)
Relevant(s, rows) ==
    IF Windowed(s)
    THEN SelectSeq(rows, LAMBDA r : r.Season \in valid_years(rows))
    ELSE rows

(* The mean of a numeric column given as its sequence of integer cells.    *)
IntMean(cells) == Mean([i \in DOMAIN cells |-> Rat(cells[i], 1)])

agg_func_last(group, columns) ==
    [Season |-> group[1].Season,
     G      |-> IntMean([i \in DOMAIN group |-> group[i].G]),
     Pos    |-> group[Len(group)].Pos,
     stats  |-> [c \in columns |->
                    IntMean([i \in DOMAIN group |-> group[i].stats[c]])]]

(* groupby('Season').agg(agg_func) of one group: numeric columns are       *)
(* averaged, the others keep the first row's value.                        *)
agg_func(group, columns) ==
    [Season |-> group[1].Season,
     G      |-> IntMean([i \in DOMAIN group |-> group[i].G]),
     Pos    |-> group[1].Pos,
     stats  |-> [c \in columns |->
                    IntMean([i \in DOMAIN group |-> group[i].stats[c]])]]

(* relevant_df after the merge: one record per season, in season order.    *)
Merge(rows, columns) ==
    LET years == Sorted(Seasons(rows))
    IN  [i \in DOMAIN years |->
            agg_func(SelectSeq(rows, LAMBDA r : r.Season = years[i]), columns)]

available_years(merged) == Seasons(merged)

base_required == <<LateFirst, LateFirst + 1, LateLast>>

group1_base == <<NominalFirst, NominalFirst + 1, NominalFirst + 2>>

HasLate_onlyLast(merged) == LateLast \in available_years(merged)

HasLate(merged) == \A i \in DOMAIN base_required :
                        base_required[i] \in available_years(merged)

substitutes(merged) == {y \in available_years(merged) : y < NominalFirst}

HasEarly(merged) ==
    \/ NominalFirst \in available_years(merged)
    \/ /\ substitutes(merged) # {}
       /\ \A y \in {NominalFirst + 1, NominalFirst + 2} :
              y \in available_years(merged)

group1_years_earliest(merged) ==
    IF NominalFirst \in available_years(merged)
    THEN group1_base
    ELSE <<SetMin(substitutes(merged)), NominalFirst + 1, NominalFirst + 2>>

group1_years(merged) ==
    IF NominalFirst \in available_years(merged)
    THEN group1_base
    ELSE <<SetMax(substitutes(merged)), NominalFirst + 1, NominalFirst + 2>>

SeasonData(merged, year) == SelectSeq(merged, LAMBDA m : m.Season = year)

(* season_data.empty or season_data['G'].max() < 6                         *)
GateFails(merged, year) ==
    LET season_data == SeasonData(merged, year)
    IN  \/ season_data = <<>>
        \/ \A i \in DOMAIN season_data :
               RatLess(season_data[i].G, Rat(GamesThreshold, 1))

(* The first year of the loop over group1_years + base_required that the   *)
(* gate stops at, 0 when it stops at none.                                 *)
RECURSIVE FirstFailing(_, _)
FirstFailing(merged, years) ==
    IF years = <<>> THEN 0
    ELSE IF GateFails(merged, years[1]) THEN years[1]
    ELSE FirstFailing(merged, Tail(years))

unique_positions(s, merged) ==
    Unique([i \in DOMAIN merged |-> standardize_position(s, merged[i].Pos)])

SameStatSets_unrestricted(positions, columns) ==
    \A i \in DOMAIN positions :
        Range(pos_columns_get(positions[i]))
            = Range(pos_columns_get(positions[1]))

(* all(s == stat_sets[0] for s in stat_sets)                               *)
SameStatSets(positions, columns) ==
    \A i \in DOMAIN positions :
        Range(StatCols(positions[i], columns))
            = Range(StatCols(positions[1], columns))

(* The record the position is taken from when several positions share one  *)
(* stat set: the 2024 record in the windowed scripts, the last record in   *)
(* int_stat_by_year.  <<>> when there is none.                             *)
DecidingRecord_first(s, merged) == <<merged[1]>>

DecidingRecord(s, merged) ==
    IF Windowed(s) THEN SeasonData(merged, LateLast)
    ELSE <<merged[Len(merged)]>>

----------------------------------------------------------------------------
(* A row of a result has the player, the label of the row in the column   *)
(* "Season Group" (windowed scripts) or its season in the column "Season"  *)
(* (int_stat_by_year; Group is then "Season"), and the stat cells.  A cell *)
(* is a number, or what float division by zero leaves.                     *)

Num(r) == [k |-> "num", n |-> r.n, d |-> r.d]
NaN == [k |-> "nan", n |-> 0, d |-> 1]
PosInf == [k |-> "inf", n |-> 0, d |-> 1]
NegInf == [k |-> "-inf", n |-> 0, d |-> 1]

(* diff = avg_group2 - avg_group1                                          *)
AbsDiff(g1, g2) == Num(RatSub(g2, g1))

(* diff = ((avg_group2 - avg_group1) / avg_group1) * 100                   *)
PctDiff(g1, g2) ==
    LET delta == RatSub(g2, g1)
    IN  IF g1.n = 0
        THEN IF delta.n > 0 THEN PosInf
             ELSE IF delta.n < 0 THEN NegInf
             ELSE NaN
        ELSE Num(Rat(delta.n * g1.d * 100, delta.d * g1.n))

Diff_reversed(s, g1, g2) ==
    IF s = "nfl_stats" THEN AbsDiff(g2, g1) ELSE PctDiff(g2, g1)

Diff(s, g1, g2) == IF s = "nfl_stats" THEN AbsDiff(g1, g2) ELSE PctDiff(g1, g2)

(* group[[cols]].mean() over the merged records of the given years.        *)
GroupMean(merged, years, c) ==
    LET group == SelectSeq(merged, LAMBDA m : m.Season \in Range(years))
    IN  Mean([i \in DOMAIN group |-> group[i].stats[c]])

(* result_df of the windowed scripts: the rows Group1, Group2, Difference. *)
WindowResult(s, player, merged, g1years, stat_cols) ==
    LET cs == Range(stat_cols)
        a1 == [c \in cs |-> GroupMean(merged, g1years, c)]
        a2 == [c \in cs |-> GroupMean(merged, base_required, c)]
    IN  << [Player |-> player, Group |-> "Group1", Season |-> 0,
            vals |-> [c \in cs |-> Num(a1[c])]],
           [Player |-> player, Group |-> "Group2", Season |-> 0,
            vals |-> [c \in cs |-> Num(a2[c])]],
           [Player |-> player, Group |-> "Difference", Season |-> 0,
            vals |-> [c \in cs |-> Diff(s, a1[c], a2[c])]] >>

(* result_df of int_stat_by_year: one row per season, in season order.     *)
SeasonResult(player, merged, stat_cols) ==
    [i \in DOMAIN merged |->
        [Player |-> player, Group |-> "Season", Season |-> merged[i].Season,
         vals |-> [c \in Range(stat_cols) |-> Num(merged[i].stats[c])]]]

----------------------------------------------------------------------------
(* process_file up to the point where the aggregate file is opened.        *)
(* kind is "skip" (a validation message and return), "error" (an exception *)
(* caught by the handler at the end of process_file) or "result".          *)

NoPos == Tok("")

(* The messages of the validation returns.                                 *)
NoDataReason == "Not enough Seasonal Data."
LateReason == "Not enough group2 Seasonal Data (2022-2024 missing)."
EarlyReason == "Not enough group1 Seasonal Data."
GamesReason == "Not enough games played in season."
PositionReason == "Position changes, need further clarification."
NoStatsReason == "Expected stat columns for position not found."
NoDecidingReason == "No record for 2024 found to decide position."

Out(kind, reason, year, merged, g1, positions, final_pos, result) ==
    [kind |-> kind, reason |-> reason, year |-> year, merged |-> merged,
     group1_years |-> g1, unique_positions |-> positions,
     final_pos |-> final_pos, result |-> result]

Stop(kind, reason, year, merged, g1, positions) ==
    Out(kind, reason, year, merged, g1, positions, NoPos, <<>>)

(* Position resolution and everything after it.                            *)
Resolve(s, f, merged, g1) ==
    LET positions == unique_positions(s, merged)
        deciding == DecidingRecord(s, merged)
        several == Len(positions) > 1
        final_pos == IF several
                     THEN standardize_position(s, deciding[1].Pos)
                     ELSE positions[1]
        stat_cols == StatCols(final_pos, f.cols)
    IN  IF positions = <<>>
        THEN Stop("error", "IndexError", 0, merged, g1, positions)
        ELSE IF several /\ ~SameStatSets(positions, f.cols)
        THEN Stop("skip", PositionReason, 0, merged, g1, positions)
        ELSE IF several /\ deciding = <<>>
        THEN Stop("skip", NoDecidingReason, 0, merged, g1, positions)
        ELSE IF Windowed(s)
        THEN IF ~Configured(final_pos)
             THEN Out("error", "KeyError", 0, merged, g1, positions,
                      final_pos, <<>>)
             ELSE Out("result", "", 0, merged, g1, positions, final_pos,
                      WindowResult(s, f.name, merged, g1, stat_cols))
        ELSE IF stat_cols = <<>>
             THEN Out("skip", NoStatsReason, 0, merged, g1, positions,
                      final_pos, <<>>)
             ELSE Out("result", "", 0, merged, g1, positions, final_pos,
                      SeasonResult(f.name, merged, stat_cols))

(* The window checks of nfl_stats and namepositioncombo_percentage.        *)
Windows(s, f, merged) ==
    IF ~HasLate(merged)
    THEN Stop("skip", LateReason, 0, merged, <<>>, <<>>)
    ELSE IF ~HasEarly(merged)
    THEN Stop("skip", EarlyReason, 0, merged, <<>>, <<>>)
    ELSE LET g1 == group1_years(merged)
             bad == FirstFailing(merged, g1 \o base_required)
         IN  IF bad # 0
             THEN Stop("skip", GamesReason, bad, merged, g1, <<>>)
             ELSE Resolve(s, f, merged, g1)

Analyse(s, f) ==
    IF ~f.exists
    THEN Stop("skip", "File not found.", 0, <<>>, <<>>, <<>>)
    ELSE IF f.missing_col = "Season" /\ s # "nfl_stats"
    THEN Stop("error", "KeyError", 0, <<>>, <<>>, <<>>)
    ELSE IF f.missing_col # "none"
    THEN Stop("skip", "Required column not found.", 0, <<>>, <<>>, <<>>)
    ELSE LET relevant == Relevant(s, f.rows)
             merged == Merge(relevant, f.cols)
         IN  IF Windowed(s)
             THEN IF relevant = <<>>
                  THEN Stop("skip", NoDataReason, 0, <<>>, <<>>, <<>>)
                  ELSE Windows(s, f, merged)
             ELSE Resolve(s, f, merged, <<>>)

----------------------------------------------------------------------------
(* The aggregate step of process_file.                                     *)

AutoSkip(s) == s # "nfl_stats"

Players(rows) == {rows[i].Player : i \in DOMAIN rows}

(* aggregate_df as read at the start of the step: the rows of the file,    *)
(* or an empty frame when there is no file or reading it raised.           *)
ReadAggregate(agg, pos, readOk) ==
    IF pos \in DOMAIN agg /\ readOk THEN agg[pos] ELSE <<>>

(* not aggregate_df.empty and player_name in aggregate_df["Player"]        *)
IsDuplicate(aggregate_df, player) ==
    aggregate_df # <<>> /\ player \in Players(aggregate_df)

(* pd.concat([aggregate_df, result_df]) followed by                        *)
(* aggregate_df.to_excel(aggregate_filename).                              *)
WriteAggregate(agg, pos, aggregate_df, result) ==
    [p \in DOMAIN agg \cup {pos} |->
        IF p = pos THEN aggregate_df \o result
        ELSE agg[p]]

(* What one call of process_file does, given the analysis a of the file:   *)
(* outcome is "skip", "error", "duplicate" (nothing written because the    *)
(* name is there already) or "appended".                                   *)
Step(s, f, a, agg, readOk, answer) ==
    LET aggregate_df == ReadAggregate(agg, a.final_pos, readOk)
        duplicate == IsDuplicate(aggregate_df, f.name)
        skip_aggregate == duplicate /\ (AutoSkip(s) \/ answer = "N")
    IN  IF a.kind # "result"
        THEN [outcome |-> a.kind, duplicate |-> FALSE, aggregate |-> agg]
        ELSE IF skip_aggregate
        THEN [outcome |-> "duplicate", duplicate |-> TRUE, aggregate |-> agg]
        ELSE [outcome |-> "appended", duplicate |-> duplicate,
              aggregate |-> WriteAggregate(agg, a.final_pos, aggregate_df,
                                           a.result)]

(* The entry process_file adds to skipped_summary: none in nfl_stats,      *)
(* which keeps no summary, and none for a duplicate.  The message of a     *)
(* validation return is a fixed text; the message of the exception handler *)
(* is "An error occurred processing <file_path>: <ex>", so path is the     *)
(* file path that the message of the entry spells out ("" when it spells   *)
(* out none).                                                              *)
SummaryEntry(s, f, a, outcome) ==
    IF s # "nfl_stats" /\ outcome \in {"skip", "error"}
    THEN << [player |-> f.name, reason |-> a.reason, year |-> a.year,
             path |-> IF outcome = "error" THEN f.name ELSE ""] >>
    ELSE <<>>

(* The text that the filter of the summary looks for.                      *)
DuplicateMarker == "Duplicate player name"

(* "Duplicate player name" in item[1]: the texts of the model that contain *)
(* the marker are the marker itself, as a reason or as a file path.        *)
MentionsDuplicate(item) ==
    item.reason = DuplicateMarker \/ item.path = DuplicateMarker

(* non_duplicate_skips                                                     *)
non_duplicate_skips(summary) ==
    SelectSeq(summary, LAMBDA item : ~MentionsDuplicate(item))

NothingPrinted == [shown |-> FALSE, lines |-> <<>>, all_ok |-> FALSE]

(* The end of main_folder: the lines "player: reason" under "Summary of    *)
(* files not processed:", or "All files processed successfully." when the  *)
(* filtered list is empty.  nfl_stats prints no summary.                   *)
PrintSummary(s, summary) ==
    IF s = "nfl_stats" THEN NothingPrinted
    ELSE [shown |-> TRUE,
          lines |-> non_duplicate_skips(summary),
          all_ok |-> non_duplicate_skips(summary) = <<>>]

----------------------------------------------------------------------------
(* main_folder.                                                            *)

NoCall ==
    [file |-> <<>>, outcome |-> "none", reason |-> "", year |-> 0,
     merged |-> <<>>, group1_years |-> <<>>, unique_positions |-> <<>>,
     final_pos |-> NoPos, result |-> <<>>, duplicate |-> FALSE,
     readOk |-> TRUE, answer |-> "none", before |-> [p \in {} |-> <<>>]]

(* What the run's surroundings decide during one call: whether reading an  *)
(* existing aggregate file succeeds, and the answer typed at the prompt of *)
(* nfl_stats (asked again until it is Y or N) when the name is found.      *)
ReadOutcomes(a, agg) ==
    IF a.kind = "result" /\ a.final_pos \in DOMAIN agg
    THEN BOOLEAN ELSE {TRUE}

Answers(s, f, a, agg, readOk) ==
    IF /\ a.kind = "result"
       /\ ~AutoSkip(s)
       /\ IsDuplicate(ReadAggregate(agg, a.final_pos, readOk), f.name)
    THEN {"Y", "N"} ELSE {"none"}

Continue_abort(outcome, i, n) == IF outcome = "error" THEN n + 1 ELSE i + 1

(* The index the loop goes on with after a call: process_file returns on a *)
(* validation message and catches every Exception itself, and main_folder  *)
(* catches what is left, so it is the next file whatever the outcome.      *)
Continue(outcome, i, n) == i + 1

(* for file_path in file_list: process_file(file_path)                     *)
ProcessFile ==
    /\ pc = "loop"
    /\ idx <= Len(file_list)
    /\ LET f == file_list[idx]
       IN  \E a \in {Analyse(script, f)} :
           \E readOk \in ReadOutcomes(a, aggregate) :
           \E answer \in Answers(script, f, a, aggregate, readOk) :
             LET st == Step(script, f, a, aggregate, readOk, answer)
             IN  /\ aggregate' = st.aggregate
                 /\ skipped_summary' =
                        skipped_summary
                            \o SummaryEntry(script, f, a, st.outcome)
                 /\ accepted' =
                        IF st.outcome = "appended"
                        THEN Append(accepted, [pos |-> a.final_pos,
                                               result |-> a.result])
                        ELSE accepted
                 /\ last' = [file |-> f, outcome |-> st.outcome,
                             reason |-> a.reason, year |-> a.year,
                             merged |-> a.merged,
                             group1_years |-> a.group1_years,
                             unique_positions |-> a.unique_positions,
                             final_pos |-> a.final_pos, result |-> a.result,
                             duplicate |-> st.duplicate, readOk |-> readOk,
                             answer |-> answer, before |-> aggregate]
                 /\ idx' = Continue(st.outcome, idx, Len(file_list))
    /\ calls' = Append(calls, idx)
    /\ UNCHANGED <<script, file_list, pc, printed, ranking, norm, workers>>

(* The loop is over: main_folder prints its summary and returns.           *)
Finish ==
    /\ pc = "loop"
    /\ idx > Len(file_list)
    /\ pc' = "done"
    /\ printed' = PrintSummary(script, skipped_summary)
    /\ UNCHANGED <<script, file_list, idx, aggregate, skipped_summary, ranking,
                   norm, workers, calls, accepted, last>>

Next == ProcessFile \/ Finish

----------------------------------------------------------------------------
(* aggregate_analysis.py, run over the aggregate files once main_folder is *)
(* done.                                                                   *)

(* str.lower() of the labels of the column "Season Group".                 *)
LowerLabel(g) ==
    CASE g = "Group1" -> "group1"
      [] g = "Group2" -> "group2"
      [] g = "Difference" -> "difference"
      [] OTHER -> g

(* The columns of an aggregate file besides Player and Season Group: the   *)
(* columns of the results concatenated in it.                              *)
stats_cols(rows) == UNION {DOMAIN rows[i].vals : i \in DOMAIN rows}

(* The aggregate has the column "Season Group": the files written by       *)
(* int_stat_by_year have the column "Season" in its place.                 *)
HasSeasonGroup(rows) == \E i \in DOMAIN rows : rows[i].Group # "Season"

(* A cell of the sheet: a result that lacks the column leaves it blank,    *)
(* which is read back as NaN.                                              *)
CellOf(row, c) == IF c \in DOMAIN row.vals THEN row.vals[c] ELSE NaN

Converts_blank(cell) == TRUE

(* astype(str).str.rstrip('%').replace('nan', '').astype(float) of a cell: *)
(* a number and the texts inf and -inf convert, the text nan becomes the   *)
(* empty text, on which float() raises ValueError.                         *)
Converts(cell) == cell.k # "nan"

df_diff_unfiltered(rows) == rows

(* df[df['Season Group'].astype(str).str.lower() == 'difference']          *)
df_diff(rows) ==
    SelectSeq(rows, LAMBDA r : LowerLabel(r.Group) = "difference")

RECURSIVE SeqOf(_)
SeqOf(S) == IF S = {} THEN <<>>
            ELSE LET x == CHOOSE y \in S : TRUE
                 IN  <<x>> \o SeqOf(S \ {x})

(* The mean of a sequence of floats: NaN when it is empty or holds both    *)
(* infinities, an infinity when it holds that one.                         *)
FloatMean(cells) ==
    LET kinds == {cells[i].k : i \in DOMAIN cells}
    IN  IF cells = <<>> \/ {"inf", "-inf"} \subseteq kinds \/ "nan" \in kinds
        THEN NaN
        ELSE IF "inf" \in kinds THEN PosInf
        ELSE IF "-inf" \in kinds THEN NegInf
        ELSE Num(Mean([i \in DOMAIN cells |->
                          [n |-> cells[i].n, d |-> cells[i].d]]))

(* df_diff[stats_cols].values.flatten()                                    *)
RECURSIVE Flatten(_, _)
Flatten(rows, cols) ==
    IF rows = <<>> THEN <<>>
    ELSE [j \in DOMAIN cols |-> CellOf(rows[1], cols[j])]
         \o Flatten(Tail(rows), cols)

process_aggregate_file(rows) ==
    LET cols == stats_cols(rows)
        diff == df_diff(rows)
    IN  IF ~HasSeasonGroup(rows)
        THEN [ok |-> FALSE, error |-> "KeyError"]
        ELSE IF \E i \in DOMAIN diff : \E c \in cols :
                    ~Converts(CellOf(diff[i], c))
        THEN [ok |-> FALSE, error |-> "ValueError"]
        ELSE [ok |-> TRUE,
              num_players |-> Cardinality(Players(rows)),
              avg_per_stat |->
                  [c \in cols |->
                      FloatMean([i \in DOMAIN diff |-> CellOf(diff[i], c)])],
              overall_avg |-> FloatMean(Flatten(diff, SeqOf(cols)))]

(* The list summary of main: one entry per aggregate file that             *)
(* process_aggregate_file returned for.                                    *)
SummaryOf(agg) ==
    { [Position |-> pos,
       NumPlayers |-> process_aggregate_file(agg[pos]).num_players,
       AvgDiff |-> process_aggregate_file(agg[pos]).avg_per_stat,
       OverallAvgDiff |-> process_aggregate_file(agg[pos]).overall_avg] :
      pos \in {q \in DOMAIN agg : process_aggregate_file(agg[q]).ok} }

(* The order of floats: a before b in a descending sort.                   *)
FloatGreater(a, b) ==
    /\ a.k # "nan" /\ b.k # "nan"
    /\ \/ a.k = "inf" /\ b.k # "inf"
       \/ a.k # "-inf" /\ b.k = "-inf"
       \/ a.k = "num" /\ b.k = "num" /\ RatLess(b, a)

(* sort_values('OverallAvgDiff', ascending=False): descending, NaN last,   *)
(* entries that compare equal in any order.                                *)
SortedDescending(rows) ==
    \A i, j \in DOMAIN rows :
        i < j => /\ ~FloatGreater(rows[j].OverallAvgDiff,
                                  rows[i].OverallAvgDiff)
                 /\ rows[i].OverallAvgDiff.k = "nan"
                        => rows[j].OverallAvgDiff.k = "nan"

Orderings(S) ==
    {f \in [1 .. Cardinality(S) -> S] :
        \A i, j \in 1 .. Cardinality(S) : f[i] = f[j] => i = j}

NoRanking == [state |-> "none", rows |-> <<>>, errors |-> {}]

(* main of aggregate_analysis: a file whose processing raises is reported  *)
(* and left out; an empty summary has no column OverallAvgDiff, so that    *)
(* sort_values raises and main ends without a ranking.                     *)
Rank ==
    /\ pc = "done"
    /\ ranking.state = "none"
    /\ LET summary == SummaryOf(aggregate)
           errors == {pos \in DOMAIN aggregate :
                         ~process_aggregate_file(aggregate[pos]).ok}
       IN  IF summary = {}
           THEN ranking' = [state |-> "crashed", rows |-> <<>>,
                            errors |-> errors]
           ELSE \E rank_df \in Orderings(summary) :
                    /\ SortedDescending(rank_df)
                    /\ ranking' = [state |-> "ranked", rows |-> rank_df,
                                   errors |-> errors]
    /\ UNCHANGED <<script, file_list, idx, pc, aggregate, skipped_summary,
                   printed, norm, workers, calls, accepted, last>>

NextRank == ProcessFile \/ Finish \/ Rank

----------------------------------------------------------------------------
(* Input files.                                                            *)

Row(y, g, pos, cols, v) ==
    [Season |-> y, G |-> g, Pos |-> pos, stats |-> [c \in cols |-> v]]

File(name, cols, rows) ==
    [name |-> name, exists |-> TRUE, missing_col |-> "none", cols |-> cols,
     rows |-> rows]

(* A stat that is v in the seasons before 2022 and v + 1 from 2022 on.     *)
StatOf(y, v) == IF y >= LateFirst THEN v + 1 ELSE v

Years == (NominalFirst - EarlierYears) .. (LateLast + 1)

WindowYears == NominalFirst .. LateLast

QBCols == Range(pos_columns["QB"])

(* One row per year of the set, in year order.                             *)
Table(years, g, pos, cols, v) ==
    LET ys == Sorted(years)
    IN  [i \in DOMAIN ys |->
            Row(ys[i], g[ys[i]], pos[ys[i]], cols, StatOf(ys[i], v))]

NoArgument == [stage |-> "none", raw |-> NoPos, once |-> NoPos,
               twice |-> NoPos]

NoWorkers == [start |-> [p \in {} |-> <<>>], proc |-> <<>>]

StartWith(s, files) ==
    /\ script = s
    /\ file_list = files
    /\ idx = 1
    /\ pc = "loop"
    /\ aggregate = [p \in {} |-> <<>>]
    /\ skipped_summary = <<>>
    /\ printed = NothingPrinted
    /\ ranking = NoRanking
    /\ workers = NoWorkers
    /\ calls = <<>>
    /\ accepted = <<>>
    /\ last = NoCall

----------------------------------------------------------------------------
(* Window selection and the games-played gate: one quarterback file with   *)
(* any set of seasons and a full season of games everywhere but in one     *)
(* year; that year has g games, or two rows of g and g + 2 games.          *)

LowGames == (GamesThreshold - 1) .. (GamesThreshold + 1)

OneCol == {"Yds"}

WindowRows(S, low, g, again) ==
    Table(S, [y \in Years |-> IF y = low THEN g ELSE FullSeason],
          [y \in Years |-> Tok("QB")], OneCol, 1)
    \o (IF again THEN << Row(low, g + 2, Tok("QB"), OneCol, 1) >> ELSE <<>>)

WindowFiles ==
    { File("p1", OneCol, WindowRows(S, low, g, FALSE)) :
        S \in SUBSET Years, low \in Years, g \in LowGames }
    \cup
    { File("p1", OneCol, WindowRows(S, low, GamesThreshold - 1, low \in S)) :
        S \in SUBSET Years, low \in Years }
    \cup
    { [File("p1", OneCol, WindowRows(WindowYears, 0, 0, FALSE))
          EXCEPT !.exists = e, !.missing_col = m] :
        e \in BOOLEAN, m \in {"none", "Season", "G", "Pos"} }

InitWindow ==
    /\ \E s \in {"nfl_stats", "namepositioncombo_percentage"} :
           \E f \in WindowFiles : StartWith(s, <<f>>)
    /\ norm = NoArgument

SpecWindow == InitWindow /\ [][Next]_vars

----------------------------------------------------------------------------
(* Position resolution: a table with the seasons 2019-2025 and a full      *)
(* season of games everywhere, whose rows carry one raw position in the    *)
(* years of a set B and another in the other years, over any choice of     *)
(* stat columns out of a few.                                              *)

RawPositions ==
    {Tok("QB"), Tok("WR"), Tok("RB"), Tok("TE"), Tok("OLB"), Tok("RET"),
     [core |-> "SAM", lower |-> TRUE, pad |-> TRUE]}

ColumnChoice == {"Y/R", "Catch%", "Y/A", "PD"}

SwitchYears ==
    {{}, {LateLast}, {LateLast + 1}, {LateLast, LateLast + 1}, {NominalFirst},
     NominalFirst .. (LateFirst - 1)}

PositionFiles ==
    { File("p1", cols,
           Table(WindowYears \cup {LateLast + 1},
                 [y \in Years |-> FullSeason],
                 [y \in Years |-> IF y \in B THEN b ELSE a], cols, 1)) :
      a \in RawPositions, b \in RawPositions, B \in SwitchYears,
      cols \in SUBSET ColumnChoice }

InitPos ==
    /\ \E s \in Scripts : \E f \in PositionFiles : StartWith(s, <<f>>)
    /\ norm = NoArgument

SpecPos == InitPos /\ [][Next]_vars

----------------------------------------------------------------------------
(* A run of main_folder over a folder of up to MaxFiles files.  Each file  *)
(* is a quarterback or a wide receiver with all six window seasons, a      *)
(* returner (a position without a stat profile), a player without the      *)
(* 2024 season, or a table without the Season column; two files may give   *)
(* the same player name, and a file name may spell out the text that the   *)
(* summary filters on.                                                     *)

Names == {"p1", "p2"}

FullRows(pos, cols, v) ==
    Table(WindowYears, [y \in Years |-> FullSeason], [y \in Years |-> pos],
          cols, v)

BatchFiles ==
    { File(n, {"Yds"}, FullRows(Tok("QB"), {"Yds"}, v)) :
        n \in Names, v \in 1 .. MaxStat }
    \cup { File(n, {"Y/R"}, FullRows(Tok("WR"), {"Y/R"}, 1)) : n \in Names }
    \cup { File(n, {"Y/R"}, FullRows(Tok("RET"), {"Y/R"}, 1)) : n \in Names }
    \cup { File(n, {"Yds"},
                Table(WindowYears \ {LateLast}, [y \in Years |-> FullSeason],
                      [y \in Years |-> Tok("QB")], {"Yds"}, 1)) :
           n \in Names }
    \cup { [File(n, {"Yds"}, FullRows(Tok("QB"), {"Yds"}, 1))
               EXCEPT !.missing_col = "Season"] :
           n \in {"p1", DuplicateMarker} }

Folders == UNION {[1 .. n -> BatchFiles] : n \in 1 .. MaxFiles}

Init ==
    /\ \E s \in Scripts : \E files \in Folders : StartWith(s, files)
    /\ norm = NoArgument

Spec == Init /\ [][Next]_vars

----------------------------------------------------------------------------
(* Ranking: a run of main_folder over up to MaxRankFiles files, followed   *)
(* by aggregate_analysis.  A file is a quarterback whose Yds are one value *)
(* in every season before 2022 and another from 2022 on (an early value of *)
(* 0 makes the percentage difference a division by zero), a quarterback    *)
(* with the further column TD, or a wide receiver.                         *)

MaxRankFiles == 3
MaxLevel == 1

LevelRows(pos, cols, early, late) ==
    [i \in 1 .. (LateLast - NominalFirst + 1) |->
        [Season |-> NominalFirst + i - 1, G |-> FullSeason, Pos |-> pos,
         stats |-> [c \in cols |->
                      IF NominalFirst + i - 1 >= LateFirst THEN late
                      ELSE early]]]

RankFiles ==
    { File(n, {"Yds"}, LevelRows(Tok("QB"), {"Yds"}, e, l)) :
        n \in Names, e \in 0 .. MaxLevel, l \in -1 .. MaxLevel }
    \cup { File("p3", {"Y/R"}, LevelRows(Tok("WR"), {"Y/R"}, e, MaxLevel)) :
             e \in 0 .. MaxLevel }
    \cup { File("p3", {"Yds", "TD"},
                LevelRows(Tok("QB"), {"Yds", "TD"}, MaxLevel, MaxLevel + 1)) }

RankFolders == UNION {[1 .. n -> RankFiles] : n \in 1 .. MaxRankFiles}

InitRank ==
    /\ \E s \in Scripts : \E files \in RankFolders : StartWith(s, files)
    /\ norm = NoArgument

SpecRank == InitRank /\ [][NextRank]_vars

----------------------------------------------------------------------------
(* standardize_position on its own: any of the three variants applied to a *)
(* token, and then to its own result.  The tokens are the members of the   *)
(* sets, the single-token positions, the canonical names, a text that      *)
(* is no position and the empty text, each in upper or lower case, bare or *)
(* surrounded by whitespace.                                               *)

SingleTokens == {"FB", "WR", "RB", "QB", "TE", "K", "P"}

Texts ==
    UNION {lb_set(v) \cup ol_set(v) : v \in Scripts}
    \cup cb_set \cup ret_set \cup dl_set \cup s_set \cup SingleTokens
    \cup {"OL", "DL", "S", "XX", ""}

Spellings(text) ==
    {[core |-> text, lower |-> l, pad |-> p] : l \in BOOLEAN, p \in BOOLEAN}

InitNorm ==
    /\ \E s \in Scripts : StartWith(s, <<>>)
    /\ \E text \in Texts : \E raw \in Spellings(text) :
           norm = [stage |-> "raw", raw |-> raw, once |-> NoPos,
                   twice |-> NoPos]

Standardize ==
    /\ norm.stage = "raw"
    /\ norm' = [norm EXCEPT !.stage = "once",
                            !.once = standardize_position(script, norm.raw)]
    /\ UNCHANGED <<script, file_list, idx, pc, aggregate, skipped_summary,
                   printed, ranking, workers, calls, accepted, last>>

StandardizeAgain ==
    /\ norm.stage = "once"
    /\ norm' = [norm EXCEPT !.stage = "twice",
                            !.twice = standardize_position(script, norm.once)]
    /\ UNCHANGED <<script, file_list, idx, pc, aggregate, skipped_summary,
                   printed, ranking, workers, calls, accepted, last>>

NextNorm == Standardize \/ StandardizeAgain

SpecNorm == InitNorm /\ [][NextNorm]_vars

----------------------------------------------------------------------------
(* Two invocations of process_file side by side on the same aggregate      *)
(* files, as when two runs of a script work on one folder.  The scripts    *)
(* take no lock, so what another invocation can fall between is the read   *)
(* of the aggregate file with the duplicate check, and the write of the    *)
(* file.  Each invocation has a file that passes every validation; the     *)
(* aggregate of the quarterbacks is empty at first or holds the result of  *)
(* a third player.  Every read of an aggregate file succeeds here.         *)

Workers == {1, 2}

ConcFiles ==
    { File(n, {"Yds"}, FullRows(Tok("QB"), {"Yds"}, v)) :
        n \in Names, v \in 1 .. MaxStat }
    \cup { File("p1", {"Y/R"}, FullRows(Tok("WR"), {"Y/R"}, 1)) }

(* The aggregates after process_file has stored the file's result in agg.  *)
Stored(s, f, agg) ==
    Step(s, f, Analyse(s, f), agg, TRUE, "Y").aggregate

InitConc ==
    /\ script \in Scripts
    /\ file_list = <<>>
    /\ idx = 1
    /\ pc = "loop"
    /\ aggregate \in
          { [p \in {} |-> <<>>],
            Stored(script, File("p0", {"Yds"}, FullRows(Tok("QB"), {"Yds"}, 1)),
                   [p \in {} |-> <<>>]) }
    /\ skipped_summary = <<>>
    /\ printed = NothingPrinted
    /\ ranking = NoRanking
    /\ norm = NoArgument
    /\ \E files \in [Workers -> ConcFiles] :
           workers = [start |-> aggregate,
                      proc |-> [w \in Workers |->
                                  [at |-> "read", file |-> files[w],
                                   aggregate_df |-> <<>>,
                                   outcome |-> "none"]]]
    /\ calls = <<>>
    /\ accepted = <<>>
    /\ last = NoCall

(* Worker w runs process_file up to the duplicate check: it reads the      *)
(* aggregate file of its position and looks for its player name.           *)
ReadAndCheck(w) ==
    /\ workers.proc[w].at = "read"
    /\ LET f == workers.proc[w].file
       IN  \E a \in {Analyse(script, f)} :
           \E answer \in Answers(script, f, a, aggregate, TRUE) :
             LET aggregate_df == ReadAggregate(aggregate, a.final_pos, TRUE)
                 skip_aggregate ==
                     /\ IsDuplicate(aggregate_df, f.name)
                     /\ (AutoSkip(script) \/ answer = "N")
             IN  workers' =
                   [workers EXCEPT
                      !.proc[w].at = IF skip_aggregate THEN "done"
                                     ELSE "write",
                      !.proc[w].outcome = IF skip_aggregate THEN "duplicate"
                                          ELSE "none",
                      !.proc[w].aggregate_df = aggregate_df]
    /\ UNCHANGED <<script, file_list, idx, pc, aggregate, skipped_summary,
                   printed, ranking, norm, calls, accepted, last>>

(* Worker w concatenates its result to the frame it read and writes the    *)
(* aggregate file.                                                         *)
ConcatAndWrite(w) ==
    /\ workers.proc[w].at = "write"
    /\ LET f == workers.proc[w].file
       IN  \E a \in {Analyse(script, f)} :
             aggregate' = WriteAggregate(aggregate, a.final_pos,
                                         workers.proc[w].aggregate_df,
                                         a.result)
    /\ workers' = [workers EXCEPT !.proc[w].at = "done",
                                  !.proc[w].outcome = "appended"]
    /\ UNCHANGED <<script, file_list, idx, pc, skipped_summary, printed,
                   ranking, norm, calls, accepted, last>>

NextConc ==
    \E w \in Workers : ReadAndCheck(w) \/ ConcatAndWrite(w)

SpecConc == InitConc /\ [][NextConc]_vars

----------------------------------------------------------------------------
(* The deciding record: a table over the years 2017-2025 without any of a  *)
(* few seasons, whose rows carry one raw position in the years of a set B  *)
(* and another in the other years, with or without a further row for 2024  *)
(* at its top.  The positions share their stat profile in part (WR, FB and *)
(* RB), in whole (WR and FB; OLB and CB) or have none (RET).               *)

DecidePositions == {Tok("WR"), Tok("FB"), Tok("RB"), Tok("OLB"), Tok("RET")}

DecideColumns == {{"Y/R"}, {"Y/R", "Y/A"}}

DroppedYears ==
    SUBSET {NominalFirst - 1, NominalFirst, LateFirst, LateLast, LateLast + 1}

DecideSwitch == {{}, {LateLast}, {NominalFirst}, {LateLast + 1},
                 {NominalFirst - 1}}

DecideFiles ==
    { File("p1", cols,
           (IF top THEN << Row(LateLast, FullSeason, b, cols, 1) >> ELSE <<>>)
           \o Table(Years \ D, [y \in Years |-> FullSeason],
                    [y \in Years |-> IF y \in B THEN b ELSE a], cols, 1)) :
      a \in DecidePositions, b \in DecidePositions, B \in DecideSwitch,
      D \in DroppedYears, cols \in DecideColumns, top \in BOOLEAN }

InitDecide ==
    /\ \E s \in {"nfl_stats", "namepositioncombo_percentage"} :
           \E f \in DecideFiles : StartWith(s, <<f>>)
    /\ norm = NoArgument

SpecDecide == InitDecide /\ [][Next]_vars

----------------------------------------------------------------------------
(* Duplicate seasons: a quarterback table with the seasons 2019-2024, the  *)
(* columns Yds and TD and a full season of games, with up to one further   *)
(* row before and one after it.  A further row repeats a season of the     *)
(* table (or adds 2025) with its own games played, position and stats.     *)

TwoCols == {"Yds", "TD"}

PartSeason == GamesThreshold + 3

FurtherRows ==
    { Row(y, g, pos, TwoCols, v) :
        y \in {NominalFirst, LateLast, LateLast + 1},
        g \in {PartSeason, FullSeason},
        pos \in {Tok("QB"), Tok("WR")},
        v \in {1, MaxStat + 1} }

Further == {<<>>} \cup {<<r>> : r \in FurtherRows}

MergeFiles ==
    { File("p1", TwoCols,
           before \o FullRows(Tok("QB"), TwoCols, v) \o after) :
        before \in Further, after \in Further, v \in 0 .. (MaxStat - 1) }

InitMerge ==
    /\ \E s \in Scripts : \E f \in MergeFiles : StartWith(s, <<f>>)
    /\ norm = NoArgument

SpecMerge == InitMerge /\ [][Next]_vars

----------------------------------------------------------------------------
(* Properties of one call of process_file, read off the history variable   *)
(* last.                                                                   *)

Called == last.outcome # "none"

Rejected == last.outcome \in {"skip", "error"}


(* The seasons of the input table that the windowed scripts retain.        *)
Retained == {y \in Seasons(last.file.rows) : y <= LateLast}

Readable == last.file.exists /\ last.file.missing_col = "none"

(* The merged games played of a season of the latest call.                 *)
MergedG(y) == SeasonData(last.merged, y)[1].G

WindowsResolved == Called /\ last.group1_years # <<>>

ResolvedYears == Range(last.group1_years) \cup Range(base_required)

(* C1: a player passes the games-played gate only if every year of both    *)
(* resolved windows has merged games played strictly greater than 6; with  *)
(* a window year of 6 games or fewer the call fails with the games-played  *)
(* reason for a year and the aggregates are left as they were.             *)
C1_GateStrictlyGreater ==
    WindowsResolved =>
        ( (\E y \in ResolvedYears :
              /\ y \in Seasons(last.merged)
              /\ ~RatLess(Rat(GamesThreshold, 1), MergedG(y)))
          => /\ last.outcome = "skip"
             /\ last.reason = GamesReason
             /\ last.year \in ResolvedYears
             /\ aggregate = last.before )

(* C2: with 2019 among the retained seasons the early window is            *)
(* <<2019, 2020, 2021>>; without it, the window is <<s, 2020, 2021>> for   *)
(* the latest retained season s before 2019, provided there is one and     *)
(* 2020 and 2021 are retained; otherwise the call fails with the           *)
(* early-window reason.  Checked on every table that passes the            *)
(* late-window check, the two examples of the claim among them.            *)
C2_EarlyWindow ==
    (Called /\ Readable /\ (LateFirst .. LateLast) \subseteq Retained) =>
        LET before == {y \in Retained : y < NominalFirst}
        IN  /\ NominalFirst \in Retained =>
                last.group1_years = <<NominalFirst, NominalFirst + 1,
                                      NominalFirst + 2>>
            /\ ( /\ NominalFirst \notin Retained
                 /\ before # {}
                 /\ {NominalFirst + 1, NominalFirst + 2} \subseteq Retained )
               => /\ Len(last.group1_years) = 3
                  /\ last.group1_years[1] \in before
                  /\ \A y \in before : y <= last.group1_years[1]
                  /\ last.group1_years[2] = NominalFirst + 1
                  /\ last.group1_years[3] = NominalFirst + 2
            /\ ( /\ NominalFirst \notin Retained
                 /\ \/ before = {}
                    \/ ~({NominalFirst + 1, NominalFirst + 2}
                            \subseteq Retained) )
               => /\ last.outcome = "skip"
                  /\ last.reason = EarlyReason
                  /\ aggregate = last.before
            /\ ( /\ Seasons(last.file.rows) = {2018, 2020, 2021, 2022, 2023, 2024}
                 /\ \A i \in DOMAIN last.file.rows :
                        last.file.rows[i].G > GamesThreshold )
               => /\ last.group1_years = <<2018, 2020, 2021>>
                  /\ ~Rejected
            /\ Seasons(last.file.rows) = {2020, 2021, 2022, 2023, 2024}
               => last.outcome = "skip" /\ last.reason = EarlyReason

(* C2 witness: 2019 is missing, 2017 and 2018 both precede it, and the     *)
(* player went through with 2018 as the first early year.                  *)
C2_Witness ==
    /\ last.outcome = "appended"
    /\ {2017, 2018} \subseteq Retained
    /\ NominalFirst \notin Retained
    /\ last.group1_years = <<2018, 2020, 2021>>

(* The windows of a call that was not rejected.                            *)
WindowsWellFormed ==
    /\ (LateFirst .. LateLast) \subseteq Seasons(last.merged)
    /\ Range(base_required) = LateFirst .. LateLast
    /\ Len(last.group1_years) = 3
    /\ Cardinality(Range(last.group1_years)) = 3
    /\ Range(last.group1_years) \subseteq Seasons(last.merged)
    /\ \A y \in Range(last.group1_years) : y < LateFirst
    /\ Range(last.group1_years) \cap Range(base_required) = {}

LateRejected ==
    /\ last.outcome = "skip"
    /\ last.reason = LateReason
    /\ aggregate = last.before

(* C3 as stated: a player that is not rejected has the late window         *)
(* 2022-2024 and three distinct early years before 2022, and a player      *)
(* whose records lack one of 2022, 2023, 2024 fails with the late-window   *)
(* reason whatever other seasons there are.                                *)
C3_Original ==
    Called =>
        /\ ~Rejected => WindowsWellFormed
        /\ ( /\ Readable
             /\ last.file.rows # <<>>
             /\ ~((LateFirst .. LateLast) \subseteq Seasons(last.file.rows)) )
           => LateRejected

(* C3 as amended: the same, the late-window reason being the one given     *)
(* when the table is readable and has at least one season of 2024 or       *)
(* earlier; with no such season the call fails before the window checks.   *)
C3_Windows ==
    Called =>
        /\ ~Rejected => WindowsWellFormed
        /\ ( /\ Readable
             /\ Retained # {}
             /\ ~((LateFirst .. LateLast) \subseteq Retained) )
           => LateRejected
        /\ (Readable /\ Retained = {})
           => last.outcome = "skip" /\ last.reason = NoDataReason

(* C3 witness: a table with 2019-2023 and a later season but no 2024 is    *)
(* refused for its late window.                                            *)
C3_Witness ==
    /\ LateRejected
    /\ (NominalFirst .. (LateLast - 1)) \subseteq Retained
    /\ LateLast + 1 \in Seasons(last.file.rows)

(* The canonical positions of the retained, merged records of the call,    *)
(* the stat profile of a position restricted to the table's columns, and   *)
(* the most recent retained record.                                        *)
Canonical ==
    {standardize_position(script, last.merged[i].Pos) :
        i \in DOMAIN last.merged}

RawSeen == {last.merged[i].Pos : i \in DOMAIN last.merged}

Profile(pos) == {c \in Range(pos_columns_get(pos)) : c \in last.file.cols}

MostRecent ==
    CHOOSE m \in Range(last.merged) :
        \A o \in Range(last.merged) : o.Season <= m.Season

PositionRan == Called /\ last.unique_positions # <<>>

PositionRejected ==
    /\ last.outcome = "skip"
    /\ last.reason = PositionReason
    /\ last.result = <<>>
    /\ aggregate = last.before

(* C4: one canonical position is the result; several with one and the same *)
(* restricted stat profile resolve to the canonical position of the most   *)
(* recent retained record; several with differing restricted profiles are  *)
(* refused with the position-change reason and produce nothing.            *)
C4_PositionResolution ==
    PositionRan =>
        /\ Cardinality(Canonical) = 1
           => last.final_pos \in Canonical /\ last.reason # PositionReason
        /\ ( /\ Cardinality(Canonical) > 1
             /\ \A p, q \in Canonical : Profile(p) = Profile(q) )
           => /\ last.final_pos = standardize_position(script, MostRecent.Pos)
              /\ last.reason # PositionReason
        /\ ( /\ Cardinality(Canonical) > 1
             /\ \E p, q \in Canonical : Profile(p) # Profile(q) )
           => PositionRejected

(* C4 witness: two canonical positions with the same restricted profile,   *)
(* stored under the position of the latest record, which is not the first  *)
(* one seen.                                                               *)
C4_Witness ==
    /\ last.outcome = "appended"
    /\ Cardinality(Canonical) = 2
    /\ last.final_pos # last.unique_positions[1]
    /\ last.file.cols # {}

WRandRB == PositionRan /\ {Tok("WR"), Tok("RB")} \subseteq RawSeen

(* The columns found in one of the WR and RB profiles only.                *)
Differing ==
    (Range(pos_columns["WR"]) \ Range(pos_columns["RB"]))
    \cup (Range(pos_columns["RB"]) \ Range(pos_columns["WR"]))

(* C5 as stated: records with raw WR and raw RB are refused with the       *)
(* position-change reason whatever stat columns the table has; stated here *)
(* for the tables that have a column named by both profiles.               *)
C5_Original ==
    ( /\ WRandRB
      /\ last.file.cols \cap Range(pos_columns["WR"])
            \cap Range(pos_columns["RB"]) # {} )
    => PositionRejected

(* C5 as amended: they are refused when the table has a column that only   *)
(* one of the two profiles names; when it has none and WR and RB are the   *)
(* only positions, the restricted profiles coincide and the player is      *)
(* resolved to the position of the most recent retained record.            *)
C5_WRandRB ==
    WRandRB =>
        /\ last.file.cols \cap Differing # {} => PositionRejected
        /\ (last.file.cols \cap Differing = {} /\ Cardinality(RawSeen) = 2)
           => /\ last.reason # PositionReason
              /\ last.final_pos
                    = standardize_position(script, MostRecent.Pos)

(* C5 witness: WR and RB over a table whose only stat column is Y/R, which *)
(* both profiles name: the result is stored.                               *)
C5_Witness ==
    /\ WRandRB
    /\ last.file.cols = {"Y/R"}
    /\ last.outcome = "appended"

----------------------------------------------------------------------------
(* Properties of the aggregates.                                           *)

(* The rows the latest call added to the aggregate of its position.        *)
Added ==
    IF last.final_pos \in DOMAIN aggregate
    THEN LET old == IF last.final_pos \in DOMAIN last.before
                    THEN Len(last.before[last.final_pos]) ELSE 0
         IN  SubSeq(aggregate[last.final_pos], old + 1,
                    Len(aggregate[last.final_pos]))
    ELSE <<>>

(* The name of the latest call was in the aggregate file of its position   *)
(* when the call started.                                                  *)
NameWasStored ==
    /\ last.result # <<>>
    /\ last.final_pos \in DOMAIN last.before
    /\ last.file.name \in Players(last.before[last.final_pos])

(* Row i of an aggregate begins a result: a Group1 row, or a season row    *)
(* that does not continue the seasons of the row before it.                *)
Begins(rows, i) ==
    \/ rows[i].Group = "Group1"
    \/ /\ rows[i].Group = "Season"
       /\ \/ i = 1
          \/ rows[i - 1].Player # rows[i].Player
          \/ rows[i - 1].Season >= rows[i].Season

ResultsOf(rows, player) ==
    Cardinality({i \in DOMAIN rows :
                    rows[i].Player = player /\ Begins(rows, i)})

(* The rows of the latest result are the last rows of the aggregate of its *)
(* position.                                                               *)
ResultIsLast ==
    /\ last.final_pos \in DOMAIN aggregate
    /\ LET rows == aggregate[last.final_pos]
       IN  /\ Len(rows) >= Len(last.result)
           /\ SubSeq(rows, Len(rows) - Len(last.result) + 1, Len(rows))
                = last.result

(* C6: under the auto-skip policy a call for a name that the aggregate of  *)
(* its position already holds is a duplicate skip that leaves every        *)
(* aggregate as it was, a call for a name it does not hold appends its     *)
(* result, and either way the aggregate then holds exactly one result for  *)
(* the name.                                                               *)
C6_AutoSkipKeepsOne ==
    (Called /\ AutoSkip(script) /\ last.result # <<>>) =>
        /\ NameWasStored
           => last.outcome = "duplicate" /\ aggregate = last.before
        /\ ~NameWasStored => last.outcome = "appended" /\ ResultIsLast
        /\ ResultsOf(aggregate[last.final_pos], last.file.name) = 1

(* C7: under the prompt policy, when the name is found in the aggregate,   *)
(* the answer N leaves the aggregate unchanged and the answer Y appends    *)
(* the result under an identity that no stored row has.                    *)
C7_PromptDisambiguates ==
    (Called /\ script = "nfl_stats" /\ last.duplicate) =>
        /\ last.answer = "N" => aggregate = last.before
        /\ last.answer = "Y"
           => /\ last.outcome = "appended"
              /\ Added # <<>>
              /\ \A i \in DOMAIN Added :
                    Added[i].Player
                        \notin Players(last.before[last.final_pos])

(* C8: every aggregate holds at most one result per player identity.       *)
C8_OneResultPerPlayer ==
    \A pos \in DOMAIN aggregate :
        \A player \in Players(aggregate[pos]) :
            ResultsOf(aggregate[pos], player) <= 1

(* The results accepted for a position, in the order of acceptance.        *)
RECURSIVE AcceptedRows(_, _)
AcceptedRows(acc, pos) ==
    IF acc = <<>> THEN <<>>
    ELSE (IF acc[1].pos = pos THEN acc[1].result ELSE <<>>)
         \o AcceptedRows(Tail(acc), pos)

(* C9: the aggregates are append-only and keep insertion order: each holds *)
(* exactly the results accepted for its position, in the order in which    *)
(* they were accepted.                                                     *)
C9_AppendOnly ==
    /\ \A pos \in DOMAIN aggregate :
           aggregate[pos] = AcceptedRows(accepted, pos)
    /\ \A i \in DOMAIN accepted : accepted[i].pos \in DOMAIN aggregate

----------------------------------------------------------------------------
(* Properties of the batch.                                                *)

InOrder == calls = [i \in 1 .. Len(calls) |-> i]

AllProcessed == pc = "done" /\ calls = [i \in 1 .. Len(file_list) |-> i]

(* The number of steps the batch has left: the files not yet processed and *)
(* the end of the loop.                                                    *)
Remaining ==
    IF pc = "done" THEN 0
    ELSE IF idx <= Len(file_list) THEN Len(file_list) - idx + 2 ELSE 1

(* C10: no outcome of a call aborts the batch: process_file is invoked     *)
(* once for every file of the list, in list order, whatever the calls      *)
(* before it did, and the batch then terminates: the loop is at a file of  *)
(* the list or at its end, every step is the next call or the end of the   *)
(* loop and leaves exactly one step fewer, and at the end every file has   *)
(* been processed.                                                         *)
C10_BatchNeverAborts ==
    /\ [](InOrder /\ Len(calls) <= Len(file_list))
    /\ [](pc \in {"loop", "done"} /\ idx = Len(calls) + 1)
    /\ [](pc = "done" => AllProcessed)
    /\ [][Remaining' = Remaining - 1]_vars

(* C10 witness: the batch is over, its first call raised an exception, a   *)
(* later one was refused, and the last one stored a result.                *)
C10_Witness ==
    /\ AllProcessed
    /\ Len(calls) >= 3
    /\ Len(skipped_summary) >= 2
    /\ skipped_summary[1].reason = "KeyError"
    /\ skipped_summary[2].reason = LateReason
    /\ last.outcome = "appended"

----------------------------------------------------------------------------
(* Properties of the summary printed at the end of main_folder.            *)

(* The calls of the batch that failed: the files whose analysis ends in a  *)
(* validation return or an exception.                                      *)
FailedFiles ==
    {i \in DOMAIN file_list : Analyse(script, file_list[i]).kind # "result"}

Listed(i) ==
    \E k \in DOMAIN printed.lines :
        /\ printed.lines[k].player = file_list[i].name
        /\ printed.lines[k].reason = Analyse(script, file_list[i]).reason

(* C11: at the end of a run of namepositioncombo_percentage the summary    *)
(* lists every file that failed, with its player and reason, lists nothing *)
(* else (no player that only met a duplicate skip), and the message that   *)
(* all files were processed successfully is printed only when no file      *)
(* failed.                                                                 *)
C11_SummaryListsFailures ==
    (script = "namepositioncombo_percentage" /\ pc = "done") =>
        /\ printed.shown
        /\ \A i \in FailedFiles : Listed(i)
        /\ \A k \in DOMAIN printed.lines :
               \E i \in FailedFiles :
                   /\ printed.lines[k].player = file_list[i].name
                   /\ printed.lines[k].reason
                        = Analyse(script, file_list[i]).reason
        /\ printed.all_ok => FailedFiles = {}

----------------------------------------------------------------------------
(* Properties of the stat selection.                                       *)

(* The latest call resolved a position whose stat profile names no column  *)
(* of the table.                                                           *)
NoApplicableStats ==
    /\ Called
    /\ last.final_pos # NoPos
    /\ StatCols(last.final_pos, last.file.cols) = <<>>

(* C12: a call whose resolved position has no stat among the columns of    *)
(* the table fails with the no-applicable-stats reason, produces no result *)
(* and leaves every aggregate as it was.                                   *)
C12_NoApplicableStats ==
    NoApplicableStats =>
        /\ last.outcome = "skip"
        /\ last.reason = NoStatsReason
        /\ last.result = <<>>
        /\ aggregate = last.before

----------------------------------------------------------------------------
(* Properties of the percentage difference and of the ranking.             *)

Infinite(cell) == cell.k \in {"inf", "-inf"}

(* The latest call appended a result in percentage mode.                   *)
PercentageResult ==
    /\ script = "namepositioncombo_percentage"
    /\ last.outcome = "appended"
    /\ Len(last.result) = 3

Ranked == ranking.state = "ranked"

(* C13: in percentage mode a stat whose early-window average is 0 has an   *)
(* undefined difference, neither zero nor an infinity, and no average of   *)
(* the ranking, per stat or overall, is an infinity.                       *)
C13_UndefinedNotInfinite ==
    /\ PercentageResult =>
           \A c \in DOMAIN last.result[1].vals :
               last.result[1].vals[c].n = 0
                   => last.result[3].vals[c].k = "nan"
    /\ (Ranked /\ script = "namepositioncombo_percentage") =>
           \A i \in DOMAIN ranking.rows :
               /\ ~Infinite(ranking.rows[i].OverallAvgDiff)
               /\ \A c \in DOMAIN ranking.rows[i].AvgDiff :
                      ~Infinite(ranking.rows[i].AvgDiff[c])

(* The positions whose aggregate process_aggregate_file returned for.      *)
Processed == DOMAIN aggregate \ ranking.errors

RankedPositions == {ranking.rows[i].Position : i \in DOMAIN ranking.rows}

(* a >= b on floats: false when either is NaN.                             *)
FloatAtLeast(a, b) ==
    /\ a.k # "nan" /\ b.k # "nan"
    /\ \/ a.k = "inf"
       \/ b.k = "-inf"
       \/ a.k = "num" /\ b.k = "num" /\ ~RatLess(a, b)

(* C14: the ranking lists every position whose aggregate was read and      *)
(* processed, each exactly once, and for any position A listed before a    *)
(* position B, overall(A) >= overall(B).                                   *)
C14_RankingDescending ==
    Ranked =>
        /\ RankedPositions = Processed
        /\ Len(ranking.rows) = Cardinality(Processed)
        /\ \A i, j \in DOMAIN ranking.rows :
               i < j => FloatAtLeast(ranking.rows[i].OverallAvgDiff,
                                     ranking.rows[j].OverallAvgDiff)

(* The sum of the cells of the rows at the places P, a set of pairs        *)
(* <<row index, column>>.                                                  *)
RECURSIVE CellSum(_, _)
CellSum(rows, P) ==
    IF P = {} THEN Rat(0, 1)
    ELSE LET p == CHOOSE q \in P : TRUE
             cell == rows[p[1]].vals[p[2]]
         IN  RatAdd([n |-> cell.n, d |-> cell.d], CellSum(rows, P \ {p}))

(* m is the mean of the cells at the places P: their sum divided by their  *)
(* number when they are numbers, and no number otherwise.                  *)
IsMeanOf(m, rows, P) ==
    IF P # {} /\ \A p \in P : rows[p[1]].vals[p[2]].k = "num"
    THEN /\ m.k = "num"
         /\ m.n * CellSum(rows, P).d * Cardinality(P)
                = CellSum(rows, P).n * m.d
    ELSE m.k # "num"

DifferenceRows(rows) == {i \in DOMAIN rows : rows[i].Group = "Difference"}

(* C15: for every position of the ranking, the player count is the number  *)
(* of distinct players stored in its aggregate, the average of each stat   *)
(* is the mean of the stat over the Difference rows alone, and the overall *)
(* average is the mean of all cells of the Difference rows, every cell     *)
(* counting once.                                                          *)
C15_AggregateAverages ==
    Ranked =>
        \A k \in DOMAIN ranking.rows :
            LET entry == ranking.rows[k]
                rows == aggregate[entry.Position]
                cols == UNION {DOMAIN rows[i].vals : i \in DOMAIN rows}
            IN  /\ entry.NumPlayers
                     = Cardinality({rows[i].Player : i \in DOMAIN rows})
                /\ DOMAIN entry.AvgDiff = cols
                /\ \A c \in cols :
                       IsMeanOf(entry.AvgDiff[c], rows,
                                DifferenceRows(rows) \X {c})
                /\ IsMeanOf(entry.OverallAvgDiff, rows,
                            DifferenceRows(rows) \X cols)

(* C15 witness: a ranked position with two players whose differences are   *)
(* two different numbers, neither of them the overall average.             *)
C15_Witness ==
    /\ Ranked
    /\ \E k \in DOMAIN ranking.rows :
           LET entry == ranking.rows[k]
               rows == aggregate[entry.Position]
           IN  /\ entry.NumPlayers = 2
               /\ entry.OverallAvgDiff.k = "num"
               /\ \A i \in DifferenceRows(rows) : \A c \in DOMAIN rows[i].vals :
                      rows[i].vals[c] # entry.OverallAvgDiff

----------------------------------------------------------------------------
(* Properties of standardize_position.                                     *)

(* C16: standardize_position applied to its own result gives that result,  *)
(* and every spelling of a text, in either case and with or without        *)
(* surrounding whitespace, has the same result; in each variant.           *)
C16_IdempotentInsensitive ==
    /\ norm.stage = "twice" => norm.twice = norm.once
    /\ norm.stage \in {"once", "twice"} =>
           /\ \A other \in Spellings(norm.raw.core) :
                  standardize_position(script, other) = norm.once
           /\ norm.once = Tok(norm.once.core)

(* C16 witness: a lower-case linebacker token surrounded by whitespace     *)
(* went to LB, and LB went to LB.                                          *)
C16_Witness ==
    /\ norm.stage = "twice"
    /\ norm.raw = [core |-> "SAM", lower |-> TRUE, pad |-> TRUE]
    /\ norm.once = Tok("LB")
    /\ norm.twice = Tok("LB")

(* C17: each of the tokens FB, WR, RB, QB, TE, K and P is its own          *)
(* canonical position, in every variant.                                   *)
C17_SingleTokenIdentities ==
    (norm.stage = "once" /\ norm.raw.core \in SingleTokens
        /\ norm.raw = Tok(norm.raw.core))
    => norm.once = norm.raw

----------------------------------------------------------------------------
(* Properties of invocations side by side.                                 *)

BothDone == \A w \in Workers : workers.proc[w].at = "done"

PositionOf(w) == Analyse(script, workers.proc[w].file).final_pos

ResultOf(w) == Analyse(script, workers.proc[w].file).result

(* The rows r lie, in this order and next to each other, in rows.          *)
Holds(rows, r) ==
    \E k \in 0 .. (Len(rows) - Len(r)) : SubSeq(rows, k + 1, k + Len(r)) = r

(* C18: when two invocations for the same player name and the same         *)
(* position have run side by side, they have not both found the name      *)
(* absent and both inserted; and whatever the two invocations were, no     *)
(* result that was stored before, or that one of them stored, is lost.     *)
C18_CheckAndAppendAtomic ==
    BothDone =>
        /\ ( /\ workers.proc[1].file.name = workers.proc[2].file.name
             /\ PositionOf(1) = PositionOf(2)
             /\ AutoSkip(script) )
           => ~(\A w \in Workers : workers.proc[w].outcome = "appended")
        /\ \A pos \in DOMAIN workers.start :
               Holds(aggregate[pos], workers.start[pos])
        /\ \A w \in Workers :
               workers.proc[w].outcome = "appended"
                   => /\ PositionOf(w) \in DOMAIN aggregate
                      /\ Holds(aggregate[PositionOf(w)], ResultOf(w))

----------------------------------------------------------------------------
(* Properties of the merge of duplicate seasons.                           *)

(* The rows of the input table that process_file keeps: all of them in     *)
(* int_stat_by_year, those of 2024 and earlier in the windowed scripts.    *)
Kept ==
    {i \in DOMAIN last.file.rows :
        Windowed(script) => last.file.rows[i].Season <= LateLast}

Occurrences(y) == {i \in Kept : last.file.rows[i].Season = y}

FirstOccurrence(y) == SetMin(Occurrences(y))

(* The sum of f[i] over the indices i of S.                                *)
RECURSIVE IndexSum(_, _)
IndexSum(f, S) ==
    IF S = {} THEN 0
    ELSE LET i == CHOOSE j \in S : TRUE IN f[i] + IndexSum(f, S \ {i})

(* The rational m is the mean of f over the indices of S.                  *)
IsIndexMean(m, f, S) == m.n * Cardinality(S) = IndexSum(f, S) * m.d

Merged == Called /\ last.merged # <<>>

(* C19: after the merge each season has one record; its numeric fields,    *)
(* games played among them, are the means over the rows of the season, its *)
(* position is that of the first row of the season, and a season with one  *)
(* row keeps that row's values.                                            *)
C19_MergeDuplicates ==
    Merged =>
        /\ \A i, j \in DOMAIN last.merged :
               last.merged[i].Season = last.merged[j].Season => i = j
        /\ Seasons(last.merged) = {last.file.rows[i].Season : i \in Kept}
        /\ \A k \in DOMAIN last.merged :
               LET m == last.merged[k]
                   occ == Occurrences(m.Season)
                   first == last.file.rows[FirstOccurrence(m.Season)]
               IN  /\ m.Pos = first.Pos
                   /\ IsIndexMean(m.G,
                          [i \in DOMAIN last.file.rows |->
                              last.file.rows[i].G], occ)
                   /\ \A c \in last.file.cols :
                          IsIndexMean(m.stats[c],
                              [i \in DOMAIN last.file.rows |->
                                  last.file.rows[i].stats[c]], occ)
                   /\ Cardinality(occ) = 1 =>
                          /\ m.G = Rat(first.G, 1)
                          /\ \A c \in last.file.cols :
                                 m.stats[c] = Rat(first.stats[c], 1)

(* C19 witness: a season with two rows that differ in games played,        *)
(* position and stats: the merged games played are no whole number and the *)
(* position is the first row's, not the last row's.                        *)
C19_Witness ==
    /\ Merged
    /\ \E k \in DOMAIN last.merged :
           LET m == last.merged[k]
               occ == Occurrences(m.Season)
           IN  /\ Cardinality(occ) = 2
               /\ m.G.d = 2
               /\ m.Pos # last.file.rows[SetMax(occ)].Pos
               /\ \E c \in last.file.cols : m.stats[c].d = 2

----------------------------------------------------------------------------
(* Properties of the result of the windowed scripts.                       *)

(* The sum of the rationals f[i] over the indices i of S.                  *)
RECURSIVE RatIndexSum(_, _)
RatIndexSum(f, S) ==
    IF S = {} THEN Rat(0, 1)
    ELSE LET i == CHOOSE j \in S : TRUE
         IN  RatAdd(f[i], RatIndexSum(f, S \ {i}))

(* The cell is the number that is the mean of the stat c over the merged   *)
(* records at the indices of S.                                            *)
IsWindowMean(cell, c, S) ==
    /\ cell.k = "num"
    /\ S # {}
    /\ Rat(cell.n * Cardinality(S), cell.d)
         = RatIndexSum([k \in DOMAIN last.merged |-> last.merged[k].stats[c]],
                       S)

MergedIn(years) ==
    {k \in DOMAIN last.merged : last.merged[k].Season \in years}

WindowedResult == Called /\ Windowed(script) /\ last.result # <<>>

(* C20: a result of the windowed scripts has the three rows Group1,        *)
(* Group2, Difference in this order, over one stat set; Group1 holds the   *)
(* means over the merged records of the early window, Group2 those over    *)
(* 2022-2024; the difference is Group2 - Group1 in nfl_stats and           *)
(* (Group2 - Group1) / Group1 * 100 in namepositioncombo_percentage, which *)
(* is no number when Group1 is 0.                                          *)
C20_ThreeRowResult ==
    WindowedResult =>
        LET r == last.result
            cols == Range(pos_columns_get(last.final_pos)) \cap last.file.cols
        IN  /\ Len(r) = 3
            /\ <<r[1].Group, r[2].Group, r[3].Group>>
                   = <<"Group1", "Group2", "Difference">>
            /\ \A i \in 1 .. 3 :
                   r[i].Player = last.file.name /\ DOMAIN r[i].vals = cols
            /\ \A c \in cols :
                   LET g1 == r[1].vals[c]
                       g2 == r[2].vals[c]
                       diff == r[3].vals[c]
                   IN  /\ IsWindowMean(g1, c,
                                       MergedIn(Range(last.group1_years)))
                       /\ IsWindowMean(g2, c, MergedIn(LateFirst .. LateLast))
                       /\ script = "nfl_stats" =>
                              /\ diff.k = "num"
                              /\ diff.n * g1.d * g2.d
                                   = (g2.n * g1.d - g1.n * g2.d) * diff.d
                       /\ (script # "nfl_stats" /\ g1.n # 0) =>
                              /\ diff.k = "num"
                              /\ diff.n * g1.n * g2.d
                                   = (g2.n * g1.d - g1.n * g2.d) * 100 * diff.d
                       /\ (script # "nfl_stats" /\ g1.n = 0) =>
                              diff.k # "num"

(* C20 witness: a percentage result whose early-window mean comes from a   *)
(* merged season and is no whole number, with a difference that is a       *)
(* number other than 0.                                                    *)
C20_Witness ==
    /\ WindowedResult
    /\ script = "namepositioncombo_percentage"
    /\ last.outcome = "appended"
    /\ last.result[1].vals["Yds"].d > 1
    /\ last.result[3].vals["Yds"].k = "num"
    /\ last.result[3].vals["Yds"].n # 0

----------------------------------------------------------------------------
(* Properties of the deciding record.                                      *)

(* Position resolution ran in the last call: the positions of the merged   *)
(* records were standardized.                                              *)
ResolutionRan == Called /\ Windowed(script) /\ last.unique_positions # <<>>

SeveralAlike ==
    /\ Len(last.unique_positions) > 1
    /\ SameStatSets(last.unique_positions, last.file.cols)

(* C21: in the windowed scripts no call ends with "No record for 2024      *)
(* found to decide position"; whenever position resolution runs the merged *)
(* records have a 2024 record and none of a later season, and a player     *)
(* with several canonical positions of one stat set gets the canonical     *)
(* position of the 2024 record.                                            *)
C21_DecidedBy2024 ==
    /\ (Called /\ Windowed(script)) => last.reason # NoDecidingReason
    /\ ResolutionRan =>
          /\ \E k \in DOMAIN last.merged : last.merged[k].Season = LateLast
          /\ \A k \in DOMAIN last.merged : last.merged[k].Season <= LateLast
          /\ SeveralAlike =>
                \A k \in DOMAIN last.merged :
                    last.merged[k].Season = LateLast =>
                        last.final_pos
                          = standardize_position(script, last.merged[k].Pos)

(* C21 witness: a table with a 2025 row and a position in 2024 that is not *)
(* the position of the earlier seasons; the stat sets are alike and the    *)
(* player is stored under the position of 2024.                            *)
C21_Witness ==
    /\ ResolutionRan
    /\ SeveralAlike
    /\ last.outcome = "appended"
    /\ \E i \in DOMAIN last.file.rows : last.file.rows[i].Season > LateLast
    /\ last.final_pos # last.unique_positions[1]

----------------------------------------------------------------------------
(* Properties of one call of process_file in                               *)
(* namepositioncombo_percentage, stated over the step that makes the call. *)

PercentageCall ==
    script = "namepositioncombo_percentage" /\ calls' # calls

(* The entries of skipped_summary before the step are its first entries    *)
(* after it.                                                               *)
EntriesKept ==
    /\ Len(skipped_summary') >= Len(skipped_summary)
    /\ SubSeq(skipped_summary', 1, Len(skipped_summary)) = skipped_summary

NewEntries ==
    SubSeq(skipped_summary', Len(skipped_summary) + 1, Len(skipped_summary'))

(* The step puts the result of the call behind the rows that the aggregate *)
(* of pos had, and leaves every other aggregate as it was.                 *)
AppendedTo(pos) ==
    aggregate' =
        [p \in DOMAIN aggregate \cup {pos} |->
            IF p = pos
            THEN (IF pos \in DOMAIN aggregate THEN aggregate[pos] ELSE <<>>)
                 \o last'.result
            ELSE aggregate[p]]

OutcomeAppended ==
    /\ last'.result # <<>>
    /\ Cardinality({pos \in DOMAIN aggregate' : AppendedTo(pos)}) = 1
    /\ NewEntries = <<>>

OutcomeDuplicate ==
    /\ last'.final_pos \in DOMAIN aggregate
    /\ last'.file.name \in Players(aggregate[last'.final_pos])
    /\ aggregate' = aggregate
    /\ NewEntries = <<>>

OutcomeFailure ==
    /\ Len(NewEntries) = 1
    /\ NewEntries[1].player = last'.file.name
    /\ aggregate' = aggregate

ExactlyOneOutcome ==
    /\ OutcomeAppended \/ OutcomeDuplicate \/ OutcomeFailure
    /\ ~(OutcomeAppended /\ OutcomeDuplicate)
    /\ ~(OutcomeAppended /\ OutcomeFailure)
    /\ ~(OutcomeDuplicate /\ OutcomeFailure)

(* C22: every call of process_file in namepositioncombo_percentage ends in *)
(* exactly one of: the result is appended to exactly one aggregate and     *)
(* skipped_summary gets no entry; a duplicate skip that changes no         *)
(* aggregate and adds no entry; a failure that adds exactly one entry and  *)
(* changes no aggregate.  No step removes or alters an entry that          *)
(* skipped_summary has.                                                    *)
C22_ExactlyOneOutcome ==
    [][script = "namepositioncombo_percentage"
         => /\ EntriesKept
            /\ PercentageCall => ExactlyOneOutcome]_vars

----------------------------------------------------------------------------
(* Properties of the positions that aggregate_analysis cannot process.     *)

(* A Difference row of the aggregate has a stat cell that is blank or      *)
(* undefined.                                                              *)
UndefinedDifference(rows) ==
    \E i \in DOMAIN rows :
        /\ rows[i].Group = "Difference"
        /\ \E c \in stats_cols(rows) :
               c \notin DOMAIN rows[i].vals \/ rows[i].vals[c].k = "nan"

(* The positions whose processing raises: an undefined Difference cell, or *)
(* an aggregate without the column "Season Group".                         *)
Raising ==
    {pos \in DOMAIN aggregate :
        \/ UndefinedDifference(aggregate[pos])
        \/ \A i \in DOMAIN aggregate[pos] :
               aggregate[pos][i].Group = "Season"}

RankedAt(pos) == {i \in DOMAIN ranking.rows : ranking.rows[i].Position = pos}

(* C23: once aggregate_analysis.main has run, no position whose processing *)
(* raised has an entry in the ranking, and every other position has        *)
(* exactly one.                                                            *)
C23_RaisingPositionLeftOut ==
    ranking.state # "none" =>
        /\ ranking.errors = Raising
        /\ \A pos \in Raising : RankedAt(pos) = {}
        /\ \A pos \in DOMAIN aggregate \ Raising :
               Cardinality(RankedAt(pos)) = 1

(* C23 witness: a ranking made while one position has an undefined         *)
(* Difference cell and another position is ranked.                         *)
C23_Witness ==
    /\ ranking.state = "ranked"
    /\ \E pos \in DOMAIN aggregate : UndefinedDifference(aggregate[pos])
    /\ ranking.rows # <<>>

====
